---- MODULE Spec2Model ----
(***************************************************************************)
(* Model of the Excalibur flashcard store and review engine               *)
(* (src/operations/db_operations.py, src/operations/card_operations.py,    *)
(* src/ui/add_menu.py, src/ui/edit_menu.py) and of its statistics          *)
(* (src/statistics.py).                                                    *)
(*                                                                         *)
(* Time is counted in ticks of 1/TicksPerDay day.  A timestamp column      *)
(* holds text; the text is modelled by the fields that decide SQLite's     *)
(* byte-wise comparison: the date, the date/time separator (' ' or 'T'),   *)
(* the time of day and the presence of the "+00:00" suffix.                *)
(***************************************************************************)
EXTENDS Integers, Sequences, FiniteSets, TLC

\* ---------------------------------------------------------------- bounds
TicksPerDay == 4
Horizon == 1
NumCards == 2
MaxTags == 1
MaxLog == 2
MaxOps == 5

StartTime == TicksPerDay
MaxTime == StartTime + TicksPerDay + Horizon
CardIds == 1..NumCards

\* how far the clock moves between two operations: a tick or a whole day
TickSteps == {1, TicksPerDay}

\* Python's None / SQL NULL is the empty sequence; a value v that may be None
\* is held as <<v>>
None == <<>>
Some(v) == <<v>>
Val(x) == x[1]

\* offsets of the local clock from UTC, in ticks (UTC-12h, UTC, UTC+12h)
TzOffsets == {0 - (TicksPerDay \div 2), 0, TicksPerDay \div 2}

\* tag names a user can type, as character sequences
TagTexts == {<<"a">>, <<" ", "a">>}

\* rating values a caller can pass to review_card
RatingInputs == {0, 3, 5}

\* texts an editor session can leave in a content file
Contents == {"q", "a"}

\* the resolution of the "%Y-%m-%d %H:%M" format, in ticks
TicksPerMinute == TicksPerDay \div 2

\* a text typed at the due date prompt that strptime rejects
NotADate == <<"not", "a date">>

\* what the user types at the four prompts of the parameter editor: None for
\* a blank line, Some(v) for a value that parses
ParameterInputs ==
    {[difficulty |-> None, stability |-> None, state |-> None, due |-> None],
     [difficulty |-> Some(11), stability |-> Some(0 - 1), state |-> Some(0), due |-> NotADate],
     [difficulty |-> None, stability |-> None, state |-> Some(2), due |-> Some(StartTime)]}

VARIABLES
    now,          \* the UTC clock, in ticks
    tz,           \* offset of the local clock from UTC, in ticks
    schedulling,  \* table schedulling: sequence of rows in rowid order
    review_log,   \* table review_log: sequence of rows in rowid order
    tags,         \* table tags: sequence of tag names
    files,        \* content blobs that exist: <<card_id, side>> -> text
    nextId,       \* the next fresh card id (uuid4)
    pc,           \* position inside update_card_in_db: the next statement
    txn,          \* the open connection's uncommitted view and arguments
    lastResult,   \* what the last operation returned to its caller
    ops,          \* number of operations started so far
    ui            \* the screens: where control is, the display, the review session

vars == <<now, tz, schedulling, review_log, tags, files, nextId, pc, txn, lastResult, ops, ui>>

\* ------------------------------------------------------------ timestamps
\* datetime.isoformat(sep) of a timezone-aware UTC datetime
IsoFormat(t, sep) ==
    [date |-> t \div TicksPerDay, sep |-> sep, tod |-> t % TicksPerDay, suffix |-> TRUE]

\* datetime.datetime.now().isoformat(): naive local time, 'T' separator
LocalNowIso ==
    [date |-> (now + tz) \div TicksPerDay, sep |-> "T",
     tod |-> (now + tz) % TicksPerDay, suffix |-> FALSE]

\* datetime.fromisoformat of a stored aware timestamp: the UTC instant
FromIsoFormat(s) == s.date * TicksPerDay + s.tod

SepOrd(sep) == IF sep = " " THEN 0 ELSE 1

\* SQLite's text comparison a <= b (byte-wise, a proper prefix sorts first)
TextLE(a, b) ==
    \/ a.date < b.date
    \/ /\ a.date = b.date
       /\ \/ SepOrd(a.sep) < SepOrd(b.sep)
          \/ /\ a.sep = b.sep
             /\ \/ a.tod < b.tod
                \/ a.tod = b.tod /\ (a.suffix => b.suffix)

\* ------------------------------------------------------------------ tags
RECURSIVE LStrip(_)
LStrip(s) == IF s # <<>> /\ Head(s) = " " THEN LStrip(Tail(s)) ELSE s

RECURSIVE RStrip(_)
RStrip(s) ==
    IF s # <<>> /\ s[Len(s)] = " " THEN RStrip(SubSeq(s, 1, Len(s) - 1)) ELSE s

\* str.strip()
Strip(s) == RStrip(LStrip(s))

Range(s) == {s[i] : i \in DOMAIN s}

\* get_tags(): the registry rows, in order
GetTags == tags

\* index of the first row of a card, 0 if it has none
RowIndex(card_id) ==
    IF \E i \in DOMAIN schedulling : schedulling[i].command = card_id
    THEN CHOOSE i \in DOMAIN schedulling :
            /\ schedulling[i].command = card_id
            /\ \A j \in DOMAIN schedulling : schedulling[j].command = card_id => i <= j
    ELSE 0

HasRow(card_id) == RowIndex(card_id) # 0

\* get_card_tags: the stored comma-joined names, trimmed, empty names dropped
GetCardTags(card_id) ==
    IF HasRow(card_id)
    THEN {Strip(t) : t \in {u \in schedulling[RowIndex(card_id)].tags : Strip(u) # <<>>}}
    ELSE {}


\* ------------------------------------------------------------- scheduler
\* fsrs State values
Learning == 1
Review == 2
Relearning == 3

\* the state column is text: str(card.state.value) / int(result[7])
StateStr(n) == CASE n = 1 -> "1" [] n = 2 -> "2" [] OTHER -> "3"
StateInt(s) == CASE s = "1" -> 1 [] s = "2" -> 2 [] OTHER -> 3

\* the rating column is text: str(review_log.rating.value)
RatingStr(n) == CASE n = 1 -> "1" [] n = 2 -> "2" [] n = 3 -> "3" [] OTHER -> "4"

\* intervals the scheduler hands out: a learning step (under a day) or a
\* review interval (a day or more)
ShortInterval == TicksPerDay \div 4
LongInterval == TicksPerDay

\* Scheduler().review_card(card, rating) with review_datetime = now: works on
\* a copy of the card, keeps the attributes it does not know (reps, lapses),
\* and returns the updated card with its ReviewLog.  A card read from the
\* store is always at step 0 (the step is not persisted).
Graduates(card, rating) ==
    \/ rating = 4
    \/ card.state = Review /\ rating # 1
    \/ card.state = Relearning /\ rating = 3

SchedulerReviewCard(card, rating) ==
    LET grad == Graduates(card, rating)
        updated == [card EXCEPT
            !.state = IF grad THEN Review
                      ELSE IF card.state = Review THEN Relearning ELSE card.state,
            !.due = Some(now + (IF grad THEN LongInterval ELSE ShortInterval)),
            !.stability = Some(rating),
            !.difficulty = Some(5 - rating),
            !.last_review = Some(now)]
    IN  [card |-> updated,
         log |-> [rating |-> rating, review_datetime |-> now]]

\* --------------------------------------------------------------- queries
\* mutant of GetCardById: an unknown card yields a default Card() instead of None
GetCardByIdDefault(card_id) ==
    IF ~HasRow(card_id)
    THEN [due |-> Some(now), stability |-> None, difficulty |-> None, reps |-> 0,
          lapses |-> 0, state |-> Learning, last_review |-> None]
    ELSE LET r == schedulling[RowIndex(card_id)]
         IN  [due |-> Some(FromIsoFormat(Val(r.due))),
              stability |-> r.stability,
              difficulty |-> r.difficulty,
              reps |-> r.reps,
              lapses |-> r.lapses,
              state |-> StateInt(Val(r.state)),
              last_review |-> IF r.last_review # None
                              THEN Some(FromIsoFormat(Val(r.last_review))) ELSE None]

\* get_card_by_id: a Card() filled from the first row of the card, or None
GetCardById(card_id) ==
    IF ~HasRow(card_id) THEN None
    ELSE LET r == schedulling[RowIndex(card_id)]
         IN  [due |-> IF r.due # None THEN Some(FromIsoFormat(Val(r.due))) ELSE Some(now),
              stability |-> r.stability,
              difficulty |-> r.difficulty,
              reps |-> r.reps,
              lapses |-> r.lapses,
              state |-> IF r.state # None THEN StateInt(Val(r.state)) ELSE Learning,
              last_review |-> IF r.last_review # None
                              THEN Some(FromIsoFormat(Val(r.last_review))) ELSE None]

\* SELECT command FROM schedulling WHERE due <= ? with the local naive now
RECURSIVE SelectDue(_)
SelectDue(rows) ==
    IF rows = <<>> THEN <<>>
    ELSE LET r == Head(rows)
         IN  (IF r.due # None /\ TextLE(Val(r.due), LocalNowIso) THEN <<r.command>> ELSE <<>>)
             \o SelectDue(Tail(rows))

GetCardsDue == SelectDue(schedulling)

\* get_all_cards_due: the due cards with their content, in the same order
GetAllCardsDue == GetCardsDue

RECURSIVE KeepIntersecting(_, _)
KeepIntersecting(cards, selected) ==
    IF cards = <<>> THEN <<>>
    ELSE (IF GetCardTags(Head(cards)) \cap selected # {} THEN <<Head(cards)>> ELSE <<>>)
         \o KeepIntersecting(Tail(cards), selected)

\* mutant of FilterDueCardsByTags: the empty selection is filtered like any other
FilterAlways(due_cards, selected_tags) == KeepIntersecting(due_cards, selected_tags)

\* filter_due_cards_by_tags(due_cards, selected_tags)
FilterDueCardsByTags(due_cards, selected_tags) ==
    IF selected_tags = {} THEN due_cards
    ELSE KeepIntersecting(due_cards, selected_tags)

\* get_cards_due_for_tags(tags)
GetCardsDueForTags(selected) ==
    IF selected = {} \/ selected = Range(GetTags) THEN GetCardsDue
    ELSE KeepIntersecting(GetCardsDue, selected)

\* calculate_next_review_dates: the offset due - now for each rating, computed
\* on copies of the card; "N/A" for an unknown card
CalculateNextReviewDates(card_id) ==
    LET card == GetCardById(card_id)
    IN  IF card = None THEN [r \in 1..4 |-> None]
        ELSE [r \in 1..4 |-> Some(Val(SchedulerReviewCard(card, r).card.due) - now)]

\* ------------------------------------------------------------ operations
NoTxn == <<>>

\* the start of one more operation, within the budget of a behaviour
StartOp == ops < MaxOps /\ ops' = ops + 1

Result(op, card_id, ret) == [op |-> op, card |-> card_id, ret |-> ret]

\* an operation that returns nothing to its caller
NoResult == Result("none", 0, "none")

\* the screens after curses.wrapper has started the main menu: the display is
\* in curses mode and no review session is running.  Of a session, reviewed
\* lists the cards review_card was called for and rated holds the cards
\* whose review was committed.
MainMenu ==
    [screen |-> "menu", display |-> "curses",
     review_terminal_mode |-> FALSE, edit_terminal_mode |-> FALSE,
     selected_tags |-> {}, selected_idx |-> 0, due_cards |-> <<>>,
     current_card_idx |-> 0,
     show_answer |-> FALSE, side |-> "none", reviewed |-> <<>>, rated |-> {}]

Init ==
    /\ now = StartTime
    /\ tz \in TzOffsets
    /\ schedulling = <<>>
    /\ review_log = <<>>
    /\ tags = <<>>
    /\ files = <<>>
    /\ nextId = 1
    /\ pc = "idle"
    /\ txn = NoTxn
    /\ lastResult = NoResult
    /\ ops = 0
    /\ ui = MainMenu

\* time passes between two operations
Tick(d) ==
    /\ pc = "idle"
    /\ StartOp
    /\ now + d <= MaxTime
    /\ now' = now + d
    /\ lastResult' = NoResult
    /\ UNCHANGED <<tz, schedulling, review_log, tags, files, nextId, pc, txn>>

\* new_tag(text)
NewTag(text) ==
    /\ pc = "idle"
    /\ StartOp
    /\ Len(tags) < MaxTags
    /\ tags' = Append(tags, text)
    /\ lastResult' = NoResult
    /\ UNCHANGED <<now, tz, schedulling, review_log, files, nextId, pc, txn>>

\* the row add_card inserts: Card() defaults, due = now written with the
\* sqlite3 datetime adapter (isoformat(" "))
NewRow(command, card_tags) ==
    [priority |-> 1,
     due |-> Some(IsoFormat(now, " ")),
     stability |-> None,
     difficulty |-> None,
     elapsed_days |-> 0,
     scheduled_days |-> 0,
     reps |-> 0,
     lapses |-> 0,
     state |-> Some(StateStr(Learning)),
     last_review |-> None,
     command |-> command,
     tags |-> card_tags]

\* add_card(command, tags)
AddCard(rows, command, card_tags) == Append(rows, NewRow(command, card_tags))

\* the blobs with one more file written (open(path, 'w'); f.write(content))
WriteFile(blobs, card_id, side, content) ==
    [k \in DOMAIN blobs \cup {<<card_id, side>>} |->
        IF k = <<card_id, side>> THEN content ELSE blobs[k]]

\* the blobs with some files removed (os.remove)
RemoveFiles(blobs, keys) == [k \in DOMAIN blobs \ keys |-> blobs[k]]

\* what the user types for a new card: the question on the front, the
\* answer on the back
TypedText(side) == IF side = "front" THEN "q" ELSE "a"

\* mutant of CreateCard: the row is inserted without looking at the files
CreateCardUnchecked(selected_tags, frontSaved, backSaved) ==
    /\ pc = "idle"
    /\ StartOp
    /\ nextId \in CardIds
    /\ IF selected_tags = {}
       THEN /\ lastResult' = Result("create", 0, "warning")
            /\ UNCHANGED <<schedulling, files, nextId>>
       ELSE /\ nextId' = nextId + 1
            /\ LET withFront == IF frontSaved
                                 THEN WriteFile(files, nextId, "front", TypedText("front"))
                                 ELSE files
               IN  files' = IF backSaved
                            THEN WriteFile(withFront, nextId, "back", TypedText("back"))
                            ELSE withFront
            /\ schedulling' = AddCard(schedulling, nextId, selected_tags)
            /\ lastResult' = Result("create", nextId,
                                    IF frontSaved /\ backSaved THEN "created" ELSE "failed")
    /\ UNCHANGED <<now, tz, review_log, tags, pc, txn>>

\* AddMenu.create_card: the editor is run on the front and on the back file;
\* frontSaved / backSaved say whether the editor left the file on disk
CreateCard(selected_tags, frontSaved, backSaved) ==
    /\ pc = "idle"
    /\ StartOp
    /\ nextId \in CardIds
    /\ IF selected_tags = {}
       THEN /\ lastResult' = Result("create", 0, "warning")
            /\ UNCHANGED <<schedulling, files, nextId>>
       ELSE /\ nextId' = nextId + 1
            /\ LET withFront == IF frontSaved
                                 THEN WriteFile(files, nextId, "front", TypedText("front"))
                                 ELSE files
               IN  files' = IF backSaved
                            THEN WriteFile(withFront, nextId, "back", TypedText("back"))
                            ELSE withFront
            /\ IF frontSaved /\ backSaved
               THEN /\ schedulling' = AddCard(schedulling, nextId, selected_tags)
                    /\ lastResult' = Result("create", nextId, "created")
               ELSE /\ schedulling' = schedulling
                    /\ lastResult' = Result("create", nextId, "failed")
    /\ UNCHANGED <<now, tz, review_log, tags, pc, txn>>

\* UPDATE schedulling SET tags = ? WHERE command = ?
SetTags(rows, card_id, new_tags) ==
    [i \in DOMAIN rows |->
        IF rows[i].command = card_id THEN [rows[i] EXCEPT !.tags = new_tags] ELSE rows[i]]

\* EditMenu.edit_card_tags: update_card_tags when the selection changed
EditCardTags(card_id, new_tags) ==
    /\ pc = "idle"
    /\ StartOp
    /\ IF new_tags # GetCardTags(card_id)
       THEN schedulling' = SetTags(schedulling, card_id, new_tags)
       ELSE schedulling' = schedulling
    /\ lastResult' = NoResult
    /\ UNCHANGED <<now, tz, review_log, tags, files, nextId, pc, txn>>

\* load_card_content: the text of each side, "" for a missing file
LoadCardContent(card_id) ==
    [side \in {"front", "back"} |->
        IF <<card_id, side>> \in DOMAIN files THEN files[<<card_id, side>>] ELSE ""]

\* update_card_content(card_id, side, content): a failing write is caught
\* and reported by the return value only
UpdateCardContent(blobs, card_id, side, content, fails) ==
    IF fails THEN blobs ELSE WriteFile(blobs, card_id, side, content)

\* EditMenu.edit_card_content: the editor leaves its text in the file and
\* update_card_content rewrites it; nothing is returned
EditCardContent(card_id, side, text) ==
    /\ pc = "idle"
    /\ StartOp
    /\ files' = UpdateCardContent(files, card_id, side, text, FALSE)
    /\ lastResult' = NoResult
    /\ UNCHANGED <<now, tz, schedulling, review_log, tags, nextId, pc, txn>>

\* mutant of DuplicateCard: the review events of the source are copied too
DuplicateCardWithHistory(card_id, wrFail) ==
    /\ pc = "idle"
    /\ StartOp
    /\ nextId \in CardIds
    /\ LET content == LoadCardContent(card_id)
           withFront == UpdateCardContent(files, nextId, "front", content["front"],
                                          wrFail = "front")
       IN  files' = UpdateCardContent(withFront, nextId, "back", content["back"],
                                      wrFail = "back")
    /\ schedulling' = AddCard(schedulling, nextId, GetCardTags(card_id))
    /\ review_log' = review_log \o
          [k \in 1..Len(SelectSeq(review_log, LAMBDA e : e.card_id = card_id)) |->
              [SelectSeq(review_log, LAMBDA e : e.card_id = card_id)[k]
                  EXCEPT !.card_id = nextId]]
    /\ nextId' = nextId + 1
    /\ lastResult' = Result("duplicate", card_id, "id")
    /\ UNCHANGED <<now, tz, tags, pc, txn>>

\* duplicate_card(card_id): both texts are loaded and written under a fresh
\* id (the results of the writes are ignored), and add_card inserts a row
\* with the source's trimmed tags; the fresh id is returned.
\* wrFail: the side whose write fails, or "none".
DuplicateCard(card_id, wrFail) ==
    /\ pc = "idle"
    /\ StartOp
    /\ nextId \in CardIds
    /\ LET content == LoadCardContent(card_id)
           withFront == UpdateCardContent(files, nextId, "front", content["front"],
                                          wrFail = "front")
       IN  files' = UpdateCardContent(withFront, nextId, "back", content["back"],
                                      wrFail = "back")
    /\ schedulling' = AddCard(schedulling, nextId, GetCardTags(card_id))
    /\ nextId' = nextId + 1
    /\ lastResult' = Result("duplicate", card_id, "id")
    /\ UNCHANGED <<now, tz, review_log, tags, pc, txn>>

\* rating_value = max(1, min(4, rating_value))
Min(a, b) == IF a < b THEN a ELSE b
Max(a, b) == IF a > b THEN a ELSE b
\* mutant of ClampRating: the argument is passed on as it came
NoClamp(rating_value) == rating_value

ClampRating(rating_value) == Max(1, Min(4, rating_value))

\* timedelta.days of a difference of two instants
Days(delta) == delta \div TicksPerDay

\* mutant of UpdateCardArgs: the counters are written one lower than read
UpdateCardArgsCountingDown(card_id, card, log) ==
    LET reviewed == card.last_review # None
    IN  [card_id |-> card_id,
         due |-> IF card.due # None THEN Some(IsoFormat(Val(card.due), "T")) ELSE None,
         stability |-> card.stability,
         difficulty |-> card.difficulty,
         elapsed_days |-> IF reviewed THEN Days(now - Val(card.last_review)) ELSE 0,
         scheduled_days |-> IF reviewed /\ Val(card.due) > now
                            THEN Days(Val(card.due) - now) ELSE 0,
         reps |-> card.reps - 1,
         lapses |-> card.lapses - 1,
         state |-> Some(StateStr(card.state)),
         last_review |-> IF reviewed
                         THEN Some(IsoFormat(Val(card.last_review), "T")) ELSE None,
         review_log |-> log]

\* update_card: the arguments it passes to update_card_in_db
UpdateCardArgs(card_id, card, log) ==
    LET reviewed == card.last_review # None
        elapsed_days == IF reviewed THEN Days(now - Val(card.last_review)) ELSE 0
        scheduled_days == IF reviewed /\ Val(card.due) > now
                          THEN Days(Val(card.due) - now) ELSE 0
    IN  [card_id |-> card_id,
         due |-> IF card.due # None THEN Some(IsoFormat(Val(card.due), "T")) ELSE None,
         stability |-> card.stability,
         difficulty |-> card.difficulty,
         elapsed_days |-> elapsed_days,
         scheduled_days |-> scheduled_days,
         reps |-> card.reps,
         lapses |-> card.lapses,
         state |-> Some(StateStr(card.state)),
         last_review |-> IF reviewed
                         THEN Some(IsoFormat(Val(card.last_review), "T")) ELSE None,
         review_log |-> log]

\* UPDATE schedulling SET due = ?, ... WHERE command = ?
UpdateRows(rows, a) ==
    [i \in DOMAIN rows |->
        IF rows[i].command = a.card_id
        THEN [rows[i] EXCEPT !.due = a.due, !.stability = a.stability,
                             !.difficulty = a.difficulty,
                             !.elapsed_days = a.elapsed_days,
                             !.scheduled_days = a.scheduled_days,
                             !.reps = a.reps, !.lapses = a.lapses,
                             !.state = a.state, !.last_review = a.last_review]
        ELSE rows[i]]

\* mutant of InsertLog: the event is written twice
InsertLogTwice(log, a) ==
    LET e == [card_id |-> a.card_id,
              rating |-> RatingStr(Val(a.review_log).rating),
              review_date |-> IsoFormat(Val(a.review_log).review_datetime, "T")]
    IN  IF a.review_log # None THEN log \o <<e, e>> ELSE log

\* INSERT INTO review_log (card_id, rating, review_date), when a log is given
InsertLog(log, a) ==
    IF a.review_log # None
    THEN Append(log, [card_id |-> a.card_id,
                      rating |-> RatingStr(Val(a.review_log).rating),
                      review_date |-> IsoFormat(Val(a.review_log).review_datetime, "T")])
    ELSE log

\* Card(): the scheduler's new card.  It carries no reps and no lapses
\* attribute; a card has them only when get_card_by_id has set them.
NewCard ==
    [due |-> Some(now), stability |-> None, difficulty |-> None,
     state |-> Learning, last_review |-> None]

\* reset_card_state(card_id): update_card(card_id, Card()).  update_card
\* reads card.reps and card.lapses to build the arguments of
\* update_card_in_db; on a card without them the read raises, nothing is
\* written and the handler returns False.
ResetCardState(card_id) ==
    /\ pc = "idle"
    /\ StartOp
    /\ LET new_card == NewCard
       IN  IF {"reps", "lapses"} \subseteq DOMAIN new_card
           THEN /\ schedulling' =
                      UpdateRows(schedulling, UpdateCardArgs(card_id, new_card, None))
                /\ lastResult' = Result("reset", card_id, "True")
           ELSE /\ schedulling' = schedulling
                /\ lastResult' = Result("reset", card_id, "False")
    /\ UNCHANGED <<now, tz, review_log, tags, files, nextId, pc, txn>>

\* strftime("%Y-%m-%d %H:%M") followed by strptime: the instant cut to the
\* minute
TruncMinute(t) == t - (t % TicksPerMinute)

\* mutant of EditedCard: a due date that does not parse is taken for a blank
\* line
EditedCardBlankDue(card, input) ==
    LET difficulty == IF input.difficulty # None
                      THEN Val(input.difficulty) ELSE Val(card.difficulty)
        stability == IF input.stability # None
                     THEN Val(input.stability) ELSE Val(card.stability)
    IN  [card EXCEPT
            !.difficulty = Some(Max(0, Min(10, difficulty))),
            !.stability = Some(Max(0, stability)),
            !.state = IF input.state # None /\ Val(input.state) \in {Learning, Review, Relearning}
                      THEN Val(input.state) ELSE card.state,
            !.due = IF Len(input.due) = 1 THEN Some(TruncMinute(Val(input.due)))
                    ELSE Some(TruncMinute(Val(card.due)))]

\* the card after the four prompts of edit_card_parameters: a blank line
\* stands for the value shown in the prompt, a due date that does not parse
\* leaves the due date alone
EditedCard(card, input) ==
    LET difficulty == IF input.difficulty # None
                      THEN Val(input.difficulty) ELSE Val(card.difficulty)
        stability == IF input.stability # None
                     THEN Val(input.stability) ELSE Val(card.stability)
    IN  [card EXCEPT
            !.difficulty = Some(Max(0, Min(10, difficulty))),
            !.stability = Some(Max(0, stability)),
            !.state = IF input.state # None /\ Val(input.state) \in {Learning, Review, Relearning}
                      THEN Val(input.state) ELSE card.state,
            !.due = IF Len(input.due) = 0 THEN Some(TruncMinute(Val(card.due)))
                    ELSE IF Len(input.due) = 1 THEN Some(TruncMinute(Val(input.due)))
                    ELSE card.due]

\* EditMenu.edit_card_parameters(card_id): nothing for an unknown card; the
\* current values are formatted with ":.2f" before the prompts, which raises
\* on a card that has no difficulty or stability yet; otherwise the edited
\* card is written by update_card without a review log.
EditCardParameters(card_id, input) ==
    /\ pc = "idle"
    /\ StartOp
    /\ LET card == GetCardById(card_id)
       IN  IF card = None
           THEN /\ schedulling' = schedulling
                /\ lastResult' = Result("params", card_id, "NotFound")
           ELSE IF card.difficulty = None \/ card.stability = None
           THEN /\ schedulling' = schedulling
                /\ lastResult' = Result("params", card_id, "raised")
           ELSE LET args == UpdateCardArgs(card_id, EditedCard(card, input), None)
                IN  /\ schedulling' = UpdateRows(schedulling, args)
                    /\ lastResult' = Result("params", card_id, "ok")
    /\ UNCHANGED <<now, tz, review_log, tags, files, nextId, pc, txn>>

\* review_card(card_id, rating_value) up to and including the UPDATE statement
\* of update_card_in_db, which opens the transaction; an unknown card returns
\* (None, None)
ReviewCard(card_id, rating_value) ==
    /\ pc = "idle"
    /\ StartOp
    /\ Len(review_log) < MaxLog
    /\ LET card == GetCardById(card_id)
       IN  IF card = None
           THEN /\ lastResult' = Result("review", card_id, "NotFound")
                /\ UNCHANGED <<pc, txn>>
           ELSE LET out == SchedulerReviewCard(card, ClampRating(rating_value))
                    args == UpdateCardArgs(card_id, out.card, Some(out.log))
                IN  /\ txn' = [args |-> args,
                               rows |-> UpdateRows(schedulling, args),
                               log |-> review_log,
                               rating_value |-> rating_value]
                    /\ pc' = "insert"
                    /\ lastResult' = Result("review", card_id, "running")
    /\ UNCHANGED <<now, tz, schedulling, review_log, tags, files, nextId>>

\* update_card_in_db: the INSERT statement, inside the open transaction
DbInsert ==
    /\ pc = "insert"
    /\ txn' = [txn EXCEPT !.log = InsertLog(txn.log, txn.args)]
    /\ pc' = "commit"
    /\ UNCHANGED <<now, tz, schedulling, review_log, tags, files, nextId, lastResult, ops>>

\* update_card_in_db: conn.commit() makes both writes durable at once
DbCommit ==
    /\ pc = "commit"
    /\ schedulling' = txn.rows
    /\ review_log' = txn.log
    /\ txn' = NoTxn
    /\ pc' = "idle"
    /\ lastResult' = Result("review", txn.args.card_id, "ok")
    /\ UNCHANGED <<now, tz, tags, files, nextId, ops>>

\* mutant of DbAbort: the statements executed so far stay in the store
\* (a connection in autocommit mode)
DbAbortKeepsWrites ==
    /\ pc \in {"insert", "commit"}
    /\ schedulling' = txn.rows
    /\ review_log' = txn.log
    /\ txn' = NoTxn
    /\ pc' = "idle"
    /\ lastResult' = Result("review", txn.args.card_id, "raised")
    /\ UNCHANGED <<now, tz, tags, files, nextId, ops>>

\* a crash or a failing statement before the commit: the connection is
\* dropped without commit and SQLite rolls the transaction back
DbAbort ==
    /\ pc \in {"insert", "commit"}
    /\ txn' = NoTxn
    /\ pc' = "idle"
    /\ lastResult' = Result("review", txn.args.card_id, "raised")
    /\ UNCHANGED <<now, tz, schedulling, review_log, tags, files, nextId, ops>>

\* mutant of Preview: the simulated Good review is written to the store
PreviewPersists(card_id) ==
    /\ pc = "idle"
    /\ LET card == GetCardById(card_id)
       IN  /\ lastResult' = Result("preview", 0, IF card = None THEN "N/A" ELSE "ok")
           /\ schedulling' =
                 IF card = None THEN schedulling
                 ELSE UpdateRows(schedulling,
                        UpdateCardArgs(card_id, SchedulerReviewCard(card, 3).card, None))
    /\ UNCHANGED <<now, tz, review_log, tags, files, nextId, pc, txn, ops>>

\* the review screen computing the four preview offsets of a card
Preview(card_id) ==
    /\ pc = "idle"
    /\ LET dates == CalculateNextReviewDates(card_id)
       IN  lastResult' = Result("preview", 0, IF dates[3] = None THEN "N/A" ELSE "ok")
    /\ UNCHANGED <<now, tz, schedulling, review_log, tags, files, nextId, pc, txn, ops>>

\* DELETE FROM schedulling WHERE command = ?
DeleteRows(rows, card_id) == SelectSeq(rows, LAMBDA r : r.command # card_id)

\* mutant of DeleteLog: the DELETE has no WHERE clause
DeleteLogAll(log, card_id) == <<>>

\* mutant of DeleteLog: the review events are left behind
DeleteLogNothing(log, card_id) == log

\* DELETE FROM review_log WHERE card_id = ?
DeleteLog(log, card_id) == SelectSeq(log, LAMBDA e : e.card_id # card_id)

\* delete_card(card_id): delete_card_from_db, then os.remove of the blobs
\* that exist.  dbFail: the store raises (caught, returns False);
\* rmFail: the side whose os.remove raises, or "none".
DeleteCard(card_id, dbFail, rmFail) ==
    /\ pc = "idle"
    /\ StartOp
    /\ IF dbFail
       THEN /\ lastResult' = Result("delete", card_id, "False")
            /\ UNCHANGED <<schedulling, review_log, files>>
       ELSE /\ schedulling' = DeleteRows(schedulling, card_id)
            /\ review_log' = DeleteLog(review_log, card_id)
            /\ LET front == <<card_id, "front">>
                   back == <<card_id, "back">>
               IN  IF front \in DOMAIN files /\ rmFail = "front"
                   THEN /\ files' = files
                        /\ lastResult' = Result("delete", card_id, "raised")
                   ELSE IF back \in DOMAIN files /\ rmFail = "back"
                   THEN /\ files' = RemoveFiles(files, {front})
                        /\ lastResult' = Result("delete", card_id, "raised")
                   ELSE /\ files' = RemoveFiles(files, {front, back})
                        /\ lastResult' = Result("delete", card_id, "True")
    /\ UNCHANGED <<now, tz, tags, nextId, pc, txn>>

\* the cards a user can pick in a menu: those of the table
ExistingCards == {c \in CardIds : HasRow(c)}

\* the operations as the menus outside a review session run them: the
\* screen is the same before and after
Next ==
    \/ (\E d \in TickSteps : Tick(d)) /\ UNCHANGED ui
    \/ (\E text \in TagTexts : NewTag(text)) /\ UNCHANGED ui
    \/ (\E sel \in SUBSET Range(tags), f \in BOOLEAN, b \in BOOLEAN : CreateCard(sel, f, b))
          /\ UNCHANGED ui
    \/ (\E c \in CardIds, sel \in SUBSET Range(tags) : EditCardTags(c, sel)) /\ UNCHANGED ui
    \/ (\E c \in CardIds, r \in RatingInputs : ReviewCard(c, r)) /\ UNCHANGED ui
    \/ DbInsert /\ UNCHANGED ui
    \/ DbCommit /\ UNCHANGED ui
    \/ DbAbort /\ UNCHANGED ui
    \/ (\E c \in CardIds : Preview(c)) /\ UNCHANGED ui
    \/ (\E c \in CardIds, dbFail \in BOOLEAN, rmFail \in {"none", "front", "back"} :
            DeleteCard(c, dbFail, rmFail)) /\ UNCHANGED ui

\* the review engine on a machine in any timezone
Spec == Init /\ [][Next]_vars

\* the operations on a single card as well
CardNext ==
    \/ Next
    \/ (\E c \in ExistingCards, side \in {"front", "back"}, text \in Contents :
            EditCardContent(c, side, text)) /\ UNCHANGED ui
    \/ (\E c \in ExistingCards, wrFail \in {"none", "front", "back"} :
            DuplicateCard(c, wrFail)) /\ UNCHANGED ui
    \/ (\E c \in CardIds : ResetCardState(c)) /\ UNCHANGED ui
    \/ (\E c \in CardIds, input \in ParameterInputs : EditCardParameters(c, input))
          /\ UNCHANGED ui

\* a machine whose local clock is UTC
CardInit == Init /\ tz = 0

\* every operation, on a machine whose local clock is UTC
CardSpec == CardInit /\ [][CardNext]_vars

\* ------------------------------------------------------------ statistics
\* days_back of get_review_history_by_day and days of get_cards_due_next_days
DaysBack == 365
ForecastDays == 7

\* bounds of the review histories the statistics are computed on
StatDays == 2
MaxPerDay == 4

\* datetime.date.today(): the local calendar day
Today == (now + tz) \div TicksPerDay

\* (datetime.datetime.now() + timedelta(days)).isoformat(): naive local time
LocalIsoAfter(days) ==
    [date |-> Today + days, sep |-> "T", tod |-> (now + tz) % TicksPerDay,
     suffix |-> FALSE]

\* get_cards_due_next_days(days): for each day the number of rows with
\* target_iso <= due < next_iso, compared as text
GetCardsDueNextDays(days) ==
    [day \in 0..(days - 1) |->
        Cardinality({i \in DOMAIN schedulling :
            /\ schedulling[i].due # None
            /\ TextLE(LocalIsoAfter(day), Val(schedulling[i].due))
            /\ ~TextLE(LocalIsoAfter(day + 1), Val(schedulling[i].due))})]

\* round(x, 1) of a percentage n / d given in tenths: to the nearest tenth,
\* a tie to the even one
RoundTenths(n, d) ==
    LET q == n \div d
        r == n % d
    IN  IF 2 * r < d THEN q
        ELSE IF 2 * r > d THEN q + 1
        ELSE IF q % 2 = 0 THEN q ELSE q + 1

\* mutant of GetRetentionRate: the share of the reviews rated Again
GetLapseRate(log) ==
    LET total_reviews == Len(log)
        again_ratings == Len(SelectSeq(log, LAMBDA e : e.rating = "1"))
    IN  IF total_reviews > 0 THEN RoundTenths(1000 * again_ratings, total_reviews) ELSE 0

\* get_retention_stats_from_db()["retention_rate"], in tenths of a percent
GetRetentionRate(log) ==
    LET total_reviews == Len(log)
        again_ratings == Len(SelectSeq(log, LAMBDA e : e.rating = "1"))
    IN  IF total_reviews > 0
        THEN RoundTenths(1000 * (total_reviews - again_ratings), total_reviews)
        ELSE 0

\* get_review_history_by_day(): the events not older than days_back, counted
\* by the first ten characters of review_date
GetReviewHistoryByDay(log) ==
    LET recent == SelectSeq(log, LAMBDA e : TextLE(LocalIsoAfter(0 - DaysBack), e.review_date))
        days == {recent[k].review_date.date : k \in DOMAIN recent}
    IN  [d \in days |-> Cardinality({k \in DOMAIN recent : recent[k].review_date.date = d})]

\* math.ceil(n / d) for n >= 0, d > 0
Ceil(n, d) == (n + d - 1) \div d

\* mutant of HeatmapIntensity: the quotient is rounded down
HeatmapIntensityFloor(count, max_count) ==
    IF count = 0 THEN 0 ELSE Min(5, (5 * count) \div max_count)

\* draw_heatmap: the intensity of a cell, 0 for an empty cell
HeatmapIntensity(count, max_count) ==
    IF count = 0 THEN 0 ELSE Min(5, Ceil(5 * count, max_count))

\* max(review_counts.values()) if review_counts else 1
MaxCount(review_counts) ==
    IF DOMAIN review_counts = {} THEN 1
    ELSE CHOOSE m \in {review_counts[d] : d \in DOMAIN review_counts} :
            \A d \in DOMAIN review_counts : review_counts[d] <= m

\* draw_heatmap(review_counts): the intensity of the cell of each day, for
\* the days from StatDays before today to today
HeatmapCells(review_counts) ==
    [cell_date \in (Today - StatDays)..Today |->
        HeatmapIntensity(IF cell_date \in DOMAIN review_counts
                         THEN review_counts[cell_date] ELSE 0,
                         MaxCount(review_counts))]

\* what the statistics screen has computed last
Shown(op, value) == [op |-> op, card |-> 0, ret |-> "ok", value |-> value]

\* the statistics screen computes the retention rate
GetRetentionStats ==
    /\ pc = "idle"
    /\ lastResult' = Shown("retention", GetRetentionRate(review_log))
    /\ UNCHANGED <<now, tz, schedulling, review_log, tags, files, nextId, pc, txn, ops>>

\* the statistics screen draws the heatmap of the review history
DrawHeatmap ==
    /\ pc = "idle"
    /\ lastResult' = Shown("heatmap", HeatmapCells(GetReviewHistoryByDay(review_log)))
    /\ UNCHANGED <<now, tz, schedulling, review_log, tags, files, nextId, pc, txn, ops>>

\* count events at the start of day d
EventsOn(d, count) ==
    [k \in 1..count |-> [card_id |-> 1, rating |-> "3",
                         review_date |-> IsoFormat(d * TicksPerDay, "T")]]

\* the log of card 1 reviewed counts[d] times on day d, the first again of
\* them rated Again and the others Good
RECURSIVE LogOfDays(_, _)
LogOfDays(counts, d) ==
    IF d = 0 THEN <<>> ELSE LogOfDays(counts, d - 1) \o EventsOn(d, counts[d])

StatLog(counts, again) ==
    LET log == LogOfDays(counts, StatDays)
    IN  [k \in DOMAIN log |-> IF k <= again THEN [log[k] EXCEPT !.rating = "1"] ELSE log[k]]

\* the row of card 1 after the reviews of a log: a card rated Again or Good
\* stays in the Learning state, due a learning step after its last review
StatRow(log) ==
    LET created == [NewRow(1, {<<"a">>}) EXCEPT !.due = Some(IsoFormat(StartTime, " "))]
        last == log[Len(log)]
        rating == IF last.rating = "1" THEN 1 ELSE 3
    IN  IF log = <<>> THEN created
        ELSE [created EXCEPT
                !.due = Some(IsoFormat(FromIsoFormat(last.review_date) + ShortInterval, "T")),
                !.stability = Some(rating),
                !.difficulty = Some(5 - rating),
                !.last_review = Some(last.review_date)]

\* a store with one tagged card and a review history of up to MaxPerDay
\* reviews on each of StatDays days, seen at the start of the last day
StatsInit ==
    /\ now = StatDays * TicksPerDay
    /\ tz \in TzOffsets
    /\ \E counts \in [1..StatDays -> 0..MaxPerDay] :
          \E again \in 0..Len(LogOfDays(counts, StatDays)) :
              /\ review_log = StatLog(counts, again)
              /\ schedulling = <<StatRow(StatLog(counts, again))>>
    /\ tags = <<<<"a">>>>
    /\ files = WriteFile(WriteFile(<<>>, 1, "front", TypedText("front")),
                         1, "back", TypedText("back"))
    /\ nextId = 2
    /\ pc = "idle"
    /\ txn = NoTxn
    /\ lastResult = NoResult
    /\ ops = 0
    /\ ui = MainMenu

StatsNext ==
    \/ GetRetentionStats /\ UNCHANGED ui
    \/ DrawHeatmap /\ UNCHANGED ui

StatsSpec == StatsInit /\ [][StatsNext]_vars

\* --------------------------------------------------------- review session
\* the rating keys of the review screen that are tried: 'l' (Again), 'j' (Good)
RatingKeys == {1, 3}

\* ReviewMenu.enter_terminal_mode: def_prog_mode and endwin, once
ReviewEnterTerminalMode(u) ==
    IF ~u.review_terminal_mode
    THEN [u EXCEPT !.display = "shell", !.review_terminal_mode = TRUE]
    ELSE u

\* ReviewMenu.exit_terminal_mode: reset_prog_mode and refresh, once
ReviewExitTerminalMode(u) ==
    IF u.review_terminal_mode
    THEN [u EXCEPT !.display = "curses", !.review_terminal_mode = FALSE]
    ELSE u

\* EditMenu.enter_terminal_mode
EditEnterTerminalMode(u) ==
    IF ~u.edit_terminal_mode
    THEN [u EXCEPT !.display = "shell", !.edit_terminal_mode = TRUE]
    ELSE u

\* EditMenu.exit_terminal_mode
EditExitTerminalMode(u) ==
    IF u.edit_terminal_mode
    THEN [u EXCEPT !.display = "curses", !.edit_terminal_mode = FALSE]
    ELSE u

\* the entries get_all_cards_due builds for a list of card ids
WithContent(cards) ==
    [k \in DOMAIN cards |->
        [id |-> cards[k], front |-> LoadCardContent(cards[k])["front"],
         back |-> LoadCardContent(cards[k])["back"]]]

\* the ids of a list of entries
Ids(entries) == [k \in DOMAIN entries |-> entries[k].id]

\* the entries of the cards that filter_due_cards_by_tags keeps
Kept(entries, selected_tags) ==
    SelectSeq(entries,
              LAMBDA e : e.id \in Range(FilterDueCardsByTags(Ids(entries), selected_tags)))

\* due_cards[current_card_idx]: the list is indexed from 0 in the code
CurrentCard == ui.due_cards[ui.current_card_idx + 1]

\* due_cards.pop(current_card_idx)
Pop(entries, idx) == SubSeq(entries, 1, idx) \o SubSeq(entries, idx + 2, Len(entries))

\* the test of the while loop of ReviewMenu.run and what follows the loop:
\* the session goes on with the current card, or the review screen leaves
\* terminal mode and returns to the main menu, where the session's list,
\* index and EditMenu are gone
EndOfIteration(u, exit_review) ==
    IF exit_review \/ u.current_card_idx >= Len(u.due_cards)
    THEN [MainMenu EXCEPT
             !.display = ReviewExitTerminalMode(u).display,
             !.review_terminal_mode = ReviewExitTerminalMode(u).review_terminal_mode]
    ELSE [u EXCEPT !.screen = "review"]

\* MainMenu key 'r' and the start of ReviewMenu.run: nothing but a message
\* when no card is due for the selection; else the session starts on the
\* first card with the question shown, in terminal mode, with a new EditMenu
StartReview(selected_tags) ==
    /\ ui.screen = "menu"
    /\ pc = "idle"
    /\ LET due_cards == Kept(WithContent(GetAllCardsDue), selected_tags)
       IN  IF GetCardsDueForTags(selected_tags) = <<>> \/ due_cards = <<>>
           THEN ui' = ui
           ELSE ui' = [ReviewEnterTerminalMode(ui) EXCEPT
                          !.screen = "review",
                          !.selected_tags = selected_tags,
                          !.due_cards = due_cards,
                          !.current_card_idx = 0,
                          !.show_answer = FALSE,
                          !.edit_terminal_mode = FALSE,
                          !.side = "none",
                          !.reviewed = <<>>,
                          !.rated = {}]
    /\ UNCHANGED <<now, tz, schedulling, review_log, tags, files, nextId, pc, txn,
                   lastResult, ops>>

\* keys 'h', ' ' and right arrow on a question: the answer is shown
ShowAnswer ==
    /\ ui.screen = "review"
    /\ ~ui.show_answer
    /\ ui' = [ui EXCEPT !.show_answer = TRUE]
    /\ UNCHANGED <<now, tz, schedulling, review_log, tags, files, nextId, pc, txn,
                   lastResult, ops>>

\* key ' ' on an answer: the question is shown again
HideAnswer ==
    /\ ui.screen = "review"
    /\ ui.show_answer
    /\ ui' = [ui EXCEPT !.show_answer = FALSE]
    /\ UNCHANGED <<now, tz, schedulling, review_log, tags, files, nextId, pc, txn,
                   lastResult, ops>>

\* mutant of Advance: the session stays on the card
NoAdvance(u) == [u EXCEPT !.show_answer = FALSE]

\* current_card_idx += 1; show_answer = False
Advance(u) == [u EXCEPT !.current_card_idx = @ + 1, !.show_answer = FALSE]

\* a rating key on an answer: review_card is called for the current card.  For
\* a card without a row it returns at once and the session moves on; else the
\* transaction of update_card_in_db is open.
RateCard(rating) ==
    /\ ui.screen = "review"
    /\ ui.show_answer
    /\ \E c \in CardIds :
          /\ c = CurrentCard.id
          /\ ReviewCard(c, rating)
          /\ ui' = IF lastResult'.ret = "NotFound"
                   THEN EndOfIteration(Advance([ui EXCEPT !.reviewed = Append(@, c)]), FALSE)
                   ELSE [ui EXCEPT !.screen = "rating", !.reviewed = Append(@, c)]

\* review_card has returned: the session moves to the next card
RateCommit ==
    /\ ui.screen = "rating"
    /\ DbCommit
    /\ ui' = EndOfIteration(Advance([ui EXCEPT !.rated = @ \cup {CurrentCard.id}]), FALSE)

\* review_card has raised: the loop catches the exception, prints it and
\* goes on with the same card
RateAbort ==
    /\ ui.screen = "rating"
    /\ DbAbort
    /\ ui' = [ui EXCEPT !.screen = "review"]

\* key 'q': exit_review
QuitReview ==
    /\ ui.screen = "review"
    /\ ui' = EndOfIteration(ui, TRUE)
    /\ UNCHANGED <<now, tz, schedulling, review_log, tags, files, nextId, pc, txn,
                   lastResult, ops>>

\* key 's': the statistics of the card are shown in curses mode
ShowStats ==
    /\ ui.screen = "review"
    /\ ui' = ReviewEnterTerminalMode(ReviewExitTerminalMode(ui))
    /\ UNCHANGED <<now, tz, schedulling, review_log, tags, files, nextId, pc, txn,
                   lastResult, ops>>

\* key 'e': the review screen leaves terminal mode and show_edit_menu enters
\* its own
OpenEditMenu ==
    /\ ui.screen = "review"
    /\ ui' = [EditEnterTerminalMode(ReviewExitTerminalMode(ui)) EXCEPT !.screen = "edit"]
    /\ UNCHANGED <<now, tz, schedulling, review_log, tags, files, nextId, pc, txn,
                   lastResult, ops>>

\* ReviewMenu.run after show_edit_menu has returned: terminal mode is
\* entered again; a deleted card is taken out of the list; else the texts
\* are loaded again (an empty text keeps the old one) and the card is taken
\* out if a selection is active and its tags no longer meet it.  show_answer
\* and current_card_idx stay as they are.
AfterEditMenu(u, card_deleted, content, card_tags) ==
    LET back == ReviewEnterTerminalMode(u)
        idx == back.current_card_idx
        card == back.due_cards[idx + 1]
        reloaded == [card EXCEPT
                        !.front = IF content["front"] # "" THEN content["front"] ELSE @,
                        !.back = IF content["back"] # "" THEN content["back"] ELSE @]
        dropped == back.selected_tags # {} /\ card_tags \cap back.selected_tags = {}
    IN  IF card_deleted \/ dropped
        THEN LET rest == [back EXCEPT !.due_cards = Pop(@, idx)]
             IN  EndOfIteration(rest, rest.due_cards = <<>>)
        ELSE EndOfIteration([back EXCEPT !.due_cards[idx + 1] = reloaded], FALSE)

\* an exception leaves show_edit_menu: the loop catches it and goes on with
\* the same card; enter_terminal_mode of the review screen is not reached
AfterEditRaised(u) == [u EXCEPT !.screen = "review"]

\* edit menu keys 'f' and 'b', up to the call of the editor: a missing file
\* is written with the text the session holds
EditSide(side) ==
    /\ ui.screen = "edit"
    /\ \E c \in CardIds :
          /\ c = CurrentCard.id
          /\ files' = IF <<c, side>> \in DOMAIN files THEN files
                      ELSE WriteFile(files, c, side, CurrentCard[side])
    /\ ui' = [ui EXCEPT !.screen = "editor", !.side = side]
    /\ UNCHANGED <<now, tz, schedulling, review_log, tags, nextId, pc, txn, lastResult, ops>>

\* the editor has ended (an editor that cannot be started is replaced by
\* the next of the fallbacks, or by none): the text it left in the file is
\* read and written back, and the edit menu returns
EditorReturns(text) ==
    /\ ui.screen = "editor"
    /\ \E c \in CardIds, side \in {"front", "back"} :
          /\ c = CurrentCard.id
          /\ side = ui.side
          /\ EditCardContent(c, side, text)
          /\ \E content \in {LoadCardContent(c)'}, card_tags \in {GetCardTags(c)} :
                ui' = AfterEditMenu([ui EXCEPT !.side = "none"], FALSE, content, card_tags)

\* edit menu key 'p'
SessionEditParameters(input) ==
    /\ ui.screen = "edit"
    /\ \E c \in CardIds :
          /\ c = CurrentCard.id
          /\ EditCardParameters(c, input)
          /\ ui' = IF lastResult'.ret = "raised" THEN AfterEditRaised(ui)
                   ELSE AfterEditMenu(ui, FALSE, LoadCardContent(c), GetCardTags(c))

\* edit menu key 't': the tag menu runs in curses mode
SessionEditTags(new_tags) ==
    /\ ui.screen = "edit"
    /\ \E c \in CardIds :
          /\ c = CurrentCard.id
          /\ EditCardTags(c, new_tags)
          /\ \E card_tags \in {GetCardTags(c)'} :
                ui' = AfterEditMenu(EditEnterTerminalMode(EditExitTerminalMode(ui)), FALSE,
                                    LoadCardContent(c), card_tags)

\* edit menu key 'd', confirmed with 'y'
SessionDelete(dbFail, rmFail) ==
    /\ ui.screen = "edit"
    /\ \E c \in CardIds :
          /\ c = CurrentCard.id
          /\ DeleteCard(c, dbFail, rmFail)
          /\ \E content \in {LoadCardContent(c)'}, card_tags \in {GetCardTags(c)'} :
                ui' = IF lastResult'.ret = "raised" THEN AfterEditRaised(ui)
                      ELSE AfterEditMenu(ui, lastResult'.ret = "True", content, card_tags)

\* edit menu keys 'c' and 'q', and 'd' answered with 'n'
CancelEdit ==
    /\ ui.screen = "edit"
    /\ ui' = AfterEditMenu(ui, FALSE, LoadCardContent(CurrentCard.id),
                           GetCardTags(CurrentCard.id))
    /\ UNCHANGED <<now, tz, schedulling, review_log, tags, files, nextId, pc, txn,
                   lastResult, ops>>

\* AddMenu.create_card when the editor cannot be started: subprocess.run
\* raises after endwin, and nothing catches the exception below
\* curses.wrapper
CreateCardEditorRaises ==
    /\ ui.screen = "menu"
    /\ tags # <<>>
    /\ ui' = [ui EXCEPT !.display = "shell", !.screen = "crashed"]
    /\ UNCHANGED <<now, tz, schedulling, review_log, tags, files, nextId, pc, txn,
                   lastResult, ops>>

\* the store after new_tag("a") and NumCards create_card with that tag, all
\* at the current time, seen from the main menu
SessionInit ==
    /\ now = StartTime
    /\ tz = 0
    /\ tags = <<<<"a">>>>
    /\ schedulling = [c \in CardIds |-> NewRow(c, {<<"a">>})]
    /\ review_log = <<>>
    /\ files = [k \in CardIds \X {"front", "back"} |-> TypedText(k[2])]
    /\ nextId = NumCards + 1
    /\ pc = "idle"
    /\ txn = NoTxn
    /\ lastResult = NoResult
    /\ ops = NumCards + 1
    /\ ui = MainMenu

SessionNext ==
    \/ \E selected_tags \in SUBSET Range(tags) : StartReview(selected_tags)
    \/ ShowAnswer
    \/ HideAnswer
    \/ \E rating \in RatingKeys : RateCard(rating)
    \/ DbInsert /\ UNCHANGED ui
    \/ RateCommit
    \/ RateAbort
    \/ QuitReview
    \/ ShowStats
    \/ OpenEditMenu
    \/ \E side \in {"front", "back"} : EditSide(side)
    \/ \E text \in Contents : EditorReturns(text)
    \/ \E input \in ParameterInputs : SessionEditParameters(input)
    \/ \E new_tags \in SUBSET Range(tags) : SessionEditTags(new_tags)
    \/ \E dbFail \in BOOLEAN, rmFail \in {"none", "front", "back"} : SessionDelete(dbFail, rmFail)
    \/ CancelEdit
    \/ CreateCardEditorRaises

\* a review session and its edit menu, on a machine whose local clock is UTC
SessionSpec == SessionInit /\ [][SessionNext]_vars

\* ------------------------------------------------------- tag management
\* bound of the registry in the tag management menu
MaxRegistry == 3

\* what the user types at the "Enter new tag name:" prompt
TagInputs == TagTexts \cup {<<"b">>, <<" ">>}

\* ManageTagsMenu(stdscr): the menu starts on the first tag with nothing
\* selected
OpenTagsMenu ==
    /\ ui.screen = "menu"
    /\ pc = "idle"
    /\ ui' = [ui EXCEPT !.screen = "tags", !.selected_idx = 0, !.selected_tags = {}]
    /\ UNCHANGED <<now, tz, schedulling, review_log, tags, files, nextId, pc, txn,
                   lastResult, ops>>

\* key 'a': new_tag(new_tag_name.strip()) unless the stripped name is empty
AddTag(new_tag_name) ==
    /\ ui.screen = "tags"
    /\ Len(tags) < MaxRegistry
    /\ tags' = IF Strip(new_tag_name) # <<>>
               THEN Append(tags, Strip(new_tag_name))
               ELSE tags
    /\ UNCHANGED <<now, tz, schedulling, review_log, files, nextId, pc, txn,
                   lastResult, ops, ui>>

\* KEY_UP
TagsUp ==
    /\ ui.screen = "tags"
    /\ ui' = IF tags # <<>>
             THEN [ui EXCEPT !.selected_idx = Max(0, @ - 1)]
             ELSE ui
    /\ UNCHANGED <<now, tz, schedulling, review_log, tags, files, nextId, pc, txn,
                   lastResult, ops>>

\* KEY_DOWN
TagsDown ==
    /\ ui.screen = "tags"
    /\ ui' = IF tags # <<>>
             THEN [ui EXCEPT !.selected_idx = Min(Len(tags) - 1, @ + 1)]
             ELSE ui
    /\ UNCHANGED <<now, tz, schedulling, review_log, tags, files, nextId, pc, txn,
                   lastResult, ops>>

\* key ' ': the tag under the cursor enters or leaves the selection
TagsToggle ==
    /\ ui.screen = "tags"
    /\ ui' = IF tags # <<>> /\ ui.selected_idx < Len(tags)
             THEN LET tag == tags[ui.selected_idx + 1]
                  IN  [ui EXCEPT !.selected_tags =
                          IF tag \in @ THEN @ \ {tag} ELSE @ \cup {tag}]
             ELSE ui
    /\ UNCHANGED <<now, tz, schedulling, review_log, tags, files, nextId, pc, txn,
                   lastResult, ops>>

\* key 'q': back to the caller
TagsQuit ==
    /\ ui.screen = "tags"
    /\ ui' = MainMenu
    /\ UNCHANGED <<now, tz, schedulling, review_log, tags, files, nextId, pc, txn,
                   lastResult, ops>>

\* the tag management menu, and cards created, retagged and deleted between
\* its visits
TagNext ==
    \/ OpenTagsMenu
    \/ \E new_tag_name \in TagInputs : AddTag(new_tag_name)
    \/ TagsUp
    \/ TagsDown
    \/ TagsToggle
    \/ TagsQuit
    \/ /\ ui.screen = "menu"
       /\ \E sel \in SUBSET Range(tags), f \in BOOLEAN, b \in BOOLEAN : CreateCard(sel, f, b)
       /\ UNCHANGED ui
    \/ /\ ui.screen = "menu"
       /\ \E c \in ExistingCards, sel \in SUBSET Range(tags) : EditCardTags(c, sel)
       /\ UNCHANGED ui
    \/ /\ ui.screen = "menu"
       /\ \E c \in ExistingCards : DeleteCard(c, FALSE, "none")
       /\ UNCHANGED ui

TagSpec == CardInit /\ [][TagNext]_vars

\* ------------------------------------------------------- preview offsets
\* the largest multiple of a unit among the offsets that are tried
MaxUnits == 120

\* a second, a minute, an hour, a day and a week, in seconds
UnitSeconds == {1, 60, 3600, 86400, 604800}

\* offsets due - now the scheduler can give, in seconds: the multiples of
\* each unit and the offsets a second before and after them
PreviewDiffs ==
    {d \in {u * k + e : u \in UnitSeconds, k \in 0..MaxUnits, e \in {0 - 1, 0, 1}} : d >= 0}

\* int(n / d): truncation towards zero
Trunc(n, d) == IF n >= 0 THEN n \div d ELSE 0 - ((0 - n) \div d)

\* mutant of FormatTimeDiff: each unit is rounded to the nearest whole number
FormatTimeDiffRounded(seconds) ==
    IF seconds < 3600 THEN [n |-> Trunc(seconds + 30, 60), unit |-> "min"]
    ELSE IF seconds < 86400 THEN [n |-> Trunc(seconds + 1800, 3600), unit |-> "h"]
    ELSE IF seconds < 604800 THEN [n |-> Trunc(seconds + 43200, 86400), unit |-> "d"]
    ELSE [n |-> Trunc(seconds + 302400, 604800), unit |-> "w"]

\* the text calculate_next_review_dates makes of an offset: f"{int(minutes)}min"
\* and so on, held as the number and the unit
FormatTimeDiff(seconds) ==
    IF seconds < 3600 THEN [n |-> Trunc(seconds, 60), unit |-> "min"]
    ELSE IF seconds < 86400 THEN [n |-> Trunc(seconds, 3600), unit |-> "h"]
    ELSE IF seconds < 604800 THEN [n |-> Trunc(seconds, 86400), unit |-> "d"]
    ELSE [n |-> Trunc(seconds, 604800), unit |-> "w"]

\* the text "N/A"
NotAvailable == [n |-> 0, unit |-> "N/A"]

\* calculate_next_review_dates(card_id) when the scheduler gives rating r
\* the offset r * diff: "N/A" four times for an unknown card, else the
\* formatted offset of each rating (kept with the offset it was made from).
\* One preview is followed in each behaviour.
PreviewNextDue(card_id, diff) ==
    /\ pc = "idle"
    /\ lastResult = NoResult
    /\ lastResult' =
          [op |-> "next_due", card |-> card_id,
           ret |-> IF GetCardById(card_id) = None THEN "N/A" ELSE "ok",
           value |-> [r \in 1..4 |->
                        [diff |-> r * diff,
                         text |-> IF GetCardById(card_id) = None THEN NotAvailable
                                  ELSE FormatTimeDiff(r * diff)]]]
    /\ UNCHANGED <<now, tz, schedulling, review_log, tags, files, nextId, pc, txn, ops>>

PreviewNext ==
    (\E c \in 1..nextId, diff \in PreviewDiffs : PreviewNextDue(c, diff)) /\ UNCHANGED ui

\* the previews of every card of the store and of a card that does not exist
PreviewSpec == SessionInit /\ [][PreviewNext]_vars

\* ---------------------------------------------------------------- claims
\* the review events of a card, in log order
EventsOf(log, card_id) == SelectSeq(log, LAMBDA e : e.card_id = card_id)

\* the rows / events of all cards but one
RowsBut(rows, card_id) == SelectSeq(rows, LAMBDA r : r.command # card_id)
EventsBut(log, card_id) == SelectSeq(log, LAMBDA e : e.card_id # card_id)

\* the step that completes a review of a card successfully
ReviewDone(card_id) == lastResult' = Result("review", card_id, "ok")

\* C1: a successful review appends exactly one review event, for the reviewed
\* card and for no other card, and the card's reps and lapses do not decrease.
C1_ReviewAppendsOneEvent ==
    [][\A c \in CardIds : ReviewDone(c) =>
          /\ Len(review_log') = Len(review_log) + 1
          /\ SubSeq(review_log', 1, Len(review_log)) = review_log
          /\ review_log'[Len(review_log')].card_id = c
          /\ \A d \in CardIds \ {c} : EventsOf(review_log', d) = EventsOf(review_log, d)
          /\ HasRow(c) /\ HasRow(c)'
          /\ schedulling'[RowIndex(c)'].reps >= schedulling[RowIndex(c)].reps
          /\ schedulling'[RowIndex(c)'].lapses >= schedulling[RowIndex(c)].lapses]_vars

\* C1 witness: a review of card 2 has completed while the log already held an
\* event of card 1
C1_Witness ==
    /\ lastResult = Result("review", 2, "ok")
    /\ Len(review_log) = 2
    /\ review_log[1].card_id = 1
    /\ review_log[2].card_id = 2

\* C2: in every persisted state a card's row carries a review (last_review is
\* set, to the date of the card's latest event) exactly when the log holds an
\* event of that card, and every event belongs to a row that carries it.
C2_ReviewAtomic ==
    /\ \A i \in DOMAIN schedulling :
          LET r == schedulling[i]
              evs == EventsOf(review_log, r.command)
          IN  /\ (r.last_review # None) <=> (evs # <<>>)
              /\ evs # <<>> => evs[Len(evs)].review_date = Val(r.last_review)
    /\ \A k \in DOMAIN review_log : HasRow(review_log[k].card_id)

\* C2 witness: a review of an existing card was cut off between its two writes
\* and before the commit; the store shows neither
C2_Witness ==
    /\ lastResult.op = "review" /\ lastResult.ret = "raised"
    /\ HasRow(lastResult.card)
    /\ schedulling[RowIndex(lastResult.card)].last_review = None
    /\ EventsOf(review_log, lastResult.card) = <<>>
    /\ review_log # <<>>

\* C3: a review of a card without a row returns NotFound and changes neither
\* table; NotFound is returned only for such a card.
C3_ReviewNotFound ==
    [][\A c \in CardIds :
          /\ (lastResult'.op = "review" /\ lastResult'.card = c /\ ~HasRow(c)) =>
                /\ lastResult'.ret = "NotFound"
                /\ schedulling' = schedulling
                /\ review_log' = review_log
          /\ lastResult' = Result("review", c, "NotFound") => ~HasRow(c)]_vars

\* C3 witness: NotFound was returned while the store held a row and an event
C3_Witness ==
    /\ lastResult.op = "review" /\ lastResult.ret = "NotFound"
    /\ schedulling # <<>>
    /\ review_log # <<>>

\* lists of card ids a caller can hand to the filter
CardLists == UNION {[1..n -> CardIds] : n \in 0..NumCards}

\* tag selections a caller can hand to the filter
Selections == SUBSET (TagTexts \cup {Strip(t) : t \in TagTexts})

\* C4: with the empty selection both tag filters return the due cards
\* unchanged, same cards in the same order, for every list of cards.
C4_EmptySelectionIdentity ==
    /\ \A cards \in CardLists : FilterDueCardsByTags(cards, {}) = cards
    /\ FilterDueCardsByTags(GetAllCardsDue, {}) = GetAllCardsDue
    /\ GetCardsDueForTags({}) = GetCardsDue

\* C4 witness: two cards are due, one of them without tags
C4_Witness ==
    /\ Len(GetAllCardsDue) = 2
    /\ GetCardTags(GetAllCardsDue[1]) = {}
    /\ GetCardTags(GetAllCardsDue[2]) # {}

\* the due cards whose trimmed tag set meets the selection
DueIntersecting(selected) ==
    SelectSeq(GetCardsDue, LAMBDA c : GetCardTags(c) \cap selected # {})

\* C5: for every non-empty selection, the whole registry included, both tag
\* filters return exactly the due cards whose trimmed tags meet the selection.
C5_FilterIntersects ==
    \A selected \in Selections \ {{}} :
        /\ FilterDueCardsByTags(GetAllCardsDue, selected) = DueIntersecting(selected)
        /\ GetCardsDueForTags(selected) = DueIntersecting(selected)

\* C6: a preview leaves the schedule table, the review log and the due cards
\* as they were.
C6_PreviewFrame ==
    [][lastResult'.op = "preview" =>
          /\ schedulling' = schedulling
          /\ review_log' = review_log
          /\ GetCardsDue' = GetCardsDue]_vars

\* C6 witness: a preview of an existing, due, already reviewed card
C6_Witness ==
    /\ lastResult = Result("preview", 0, "ok")
    /\ GetCardsDue # <<>>
    /\ review_log # <<>>

\* the cards whose due instant is not after the clock
DueByInstant ==
    {c \in CardIds : HasRow(c) /\ Val(GetCardById(c).due) <= now}

\* C7: get_cards_due returns exactly the cards whose due instant is <= now.
C7_DueSetExact == Range(GetCardsDue) = DueByInstant

\* C8: a card just created is due; after a successful review rated Good the
\* appended event carries the card and rating 3, the card's due is after now
\* and the card is no longer among the due cards.
C8_CreateThenReview ==
    /\ lastResult.ret = "created" => lastResult.card \in Range(GetCardsDue)
    /\ \A c \in CardIds :
          (/\ lastResult = Result("review", c, "ok")
           /\ review_log[Len(review_log)].rating = "3") =>
              /\ review_log[Len(review_log)].card_id = c
              /\ Val(GetCardById(c).due) > now
              /\ c \notin Range(GetCardsDue)

\* C9: after a successful delete the card has no row and no review event,
\* and the rows and events of every other card are as before.
C9_DeleteCascades ==
    [][\A c \in CardIds : lastResult' = Result("delete", c, "True") =>
          /\ GetCardById(c)' = None
          /\ EventsOf(review_log', c) = <<>>
          /\ RowsBut(schedulling', c) = RowsBut(schedulling, c)
          /\ EventsBut(review_log', c) = EventsBut(review_log, c)]_vars

\* C9 witness: card 1 was deleted while card 2 keeps its row and its event
C9_Witness ==
    /\ lastResult = Result("delete", 1, "True")
    /\ nextId > 2
    /\ HasRow(2)
    /\ EventsOf(review_log, 2) # <<>>

\* C10: delete_card never ends in an error: once the store has removed the
\* row and the events, it returns success whatever the blob removal does.
C10_DeleteNeverRaises ==
    lastResult.op = "delete" => lastResult.ret \in {"True", "False"}
\* the two sides of a card
Sides == {"front", "back"}

\* the scheduling fields of a row are those add_card gives a new card at the
\* current time
HasDefaults(r) ==
    /\ r.due = Some(IsoFormat(now, " "))
    /\ r.stability = None
    /\ r.difficulty = None
    /\ r.elapsed_days = 0
    /\ r.scheduled_days = 0
    /\ r.reps = 0
    /\ r.lapses = 0
    /\ r.state = Some("1")
    /\ r.last_review = None

IsReset(r) ==
    /\ r.due # None /\ FromIsoFormat(Val(r.due)) = now
    /\ r.stability = None
    /\ r.difficulty = None
    /\ r.reps = 0
    /\ r.lapses = 0
    /\ r.state = Some("1")
    /\ r.last_review = None

\* C12: reset_card of an existing card sets the scheduling fields of its row
\* to the scheduler's defaults and changes nothing else: the row keeps its id
\* and tags, the number of rows, every other row, the blobs and the review
\* log are as before.
C12_ResetInPlace ==
    [][\A c \in CardIds :
          (lastResult'.op = "reset" /\ lastResult'.card = c /\ HasRow(c)) =>
              /\ Len(schedulling') = Len(schedulling)
              /\ RowIndex(c)' = RowIndex(c)
              /\ IsReset(schedulling'[RowIndex(c)])
              /\ schedulling'[RowIndex(c)].tags = schedulling[RowIndex(c)].tags
              /\ RowsBut(schedulling', c) = RowsBut(schedulling, c)
              /\ review_log' = review_log
              /\ files' = files]_vars

\* C13: create_card inserts a row for the new id exactly when both blobs of
\* that id exist; when one of them was not persisted it reports the failure
\* and the schedule table is as before.
C13_CreateAllOrNothing ==
    [][(lastResult'.op = "create" /\ lastResult'.ret # "warning") =>
          \E n \in CardIds :
              /\ n = nextId
              /\ lastResult'.card = n
              /\ LET both == \A side \in Sides : <<n, side>> \in DOMAIN files'
                 IN  /\ HasRow(n)' <=> both
                     /\ both => /\ lastResult'.ret = "created"
                                /\ Len(schedulling') = Len(schedulling) + 1
                     /\ ~both => /\ lastResult'.ret = "failed"
                                 /\ schedulling' = schedulling]_vars

\* C13 witness: a create_card whose front was saved and whose back was not
\* has failed, next to a card created before
C13_Witness ==
    /\ lastResult = Result("create", 2, "failed")
    /\ <<2, "front">> \in DOMAIN files
    /\ <<2, "back">> \notin DOMAIN files
    /\ ~HasRow(2)
    /\ HasRow(1)

\* C14: the reps and lapses of a row are never negative, and no step
\* (review, reset, parameter edit, tag edit, content edit or any other)
\* leaves a card that keeps its row with a smaller reps or lapses.
C14_CountersNeverDecrease ==
    [][\A c \in CardIds : (HasRow(c) /\ HasRow(c)') =>
          /\ schedulling'[RowIndex(c)'].reps >= schedulling[RowIndex(c)].reps
          /\ schedulling'[RowIndex(c)'].lapses >= schedulling[RowIndex(c)].lapses
          /\ schedulling'[RowIndex(c)'].reps >= 0
          /\ schedulling'[RowIndex(c)'].lapses >= 0]_vars

\* C14 witness: the parameters of a reviewed card were edited and written
C14_Witness ==
    /\ lastResult = Result("params", 1, "ok")
    /\ EventsOf(review_log, 1) # <<>>
    /\ schedulling[RowIndex(1)].stability = Some(0)

\* C15: the review log only grows at its end, by one event, in the step that
\* commits a review; every other step leaves it as it is, except a delete of
\* a card, which removes the events of that card and no other.  So an event
\* keeps its card_id, rating and review_date for as long as its card exists.
C15_LogAppendOnly ==
    [][IF lastResult'.op = "delete"
       THEN review_log' \in {review_log, EventsBut(review_log, lastResult'.card)}
       ELSE /\ Len(review_log') >= Len(review_log)
            /\ SubSeq(review_log', 1, Len(review_log)) = review_log
            /\ review_log' # review_log =>
                  /\ Len(review_log') = Len(review_log) + 1
                  /\ lastResult'.op = "review"
                  /\ lastResult'.ret = "ok"]_vars

\* C15 witness: a reviewed card was duplicated and then reset, and its event
\* is still the whole log
C15_Witness ==
    /\ lastResult = Result("reset", 1, "False")
    /\ HasRow(2)
    /\ Len(review_log) = 1
    /\ review_log[1].card_id = 1

\* the rating text the log must hold for a rating argument: the nearest of
\* 1, 2, 3, 4
NearestRating(r) ==
    IF r <= 1 THEN "1" ELSE IF r = 2 THEN "2" ELSE IF r = 3 THEN "3" ELSE "4"

\* C16: a review of an existing card is carried out whatever integer the
\* rating argument is, and the event it appends holds the argument brought
\* into 1..4; every rating in the log is one of "1", "2", "3", "4".
C16_RatingClamped ==
    [][/\ \A c \in CardIds :
            /\ (pc = "idle" /\ lastResult'.op = "review" /\ lastResult'.card = c
                    /\ HasRow(c)) =>
                  /\ lastResult'.ret = "running"
                  /\ Val(txn'.args.review_log).rating \in 1..4
            /\ ReviewDone(c) =>
                  review_log'[Len(review_log')].rating = NearestRating(txn.rating_value)
       /\ \A k \in DOMAIN review_log' : review_log'[k].rating \in {"1", "2", "3", "4"}]_vars

\* C16 witness: reviews called with ratings 0 and 5 have both been committed
C16_Witness ==
    /\ lastResult.op = "review" /\ lastResult.ret = "ok"
    /\ Len(review_log) = 2
    /\ review_log[1].rating = "1"
    /\ review_log[2].rating = "4"

\* C17: the review that is committed at time now leaves in the row an
\* elapsed_days equal to the whole days from the last_review the row held
\* before to now (0 for a card never reviewed before), and a scheduled_days
\* equal to the whole days from now to the new due when that is in the
\* future, else 0.
C17_ElapsedAndScheduledDays ==
    [][\A c \in CardIds : ReviewDone(c) =>
          LET before == schedulling[RowIndex(c)]
              after == schedulling'[RowIndex(c)']
              due == FromIsoFormat(Val(after.due))
          IN  /\ after.elapsed_days =
                    IF before.last_review = None THEN 0
                    ELSE Days(now - FromIsoFormat(Val(before.last_review)))
              /\ after.scheduled_days = IF due > now THEN Days(due - now) ELSE 0]_vars

\* C18: the retention rate shown is (total - again) / total of the review
\* log as a percentage to one decimal, again being the number of events
\* rated 1; it is 0 for an empty log and always within 0..100 percent.
\* (Values are in tenths of a percent.)
C18_RetentionRate ==
    lastResult.op = "retention" =>
        LET total == Len(review_log)
            again == Cardinality({k \in DOMAIN review_log : review_log[k].rating = "1"})
            shown == lastResult.value
            error == shown * total - 1000 * (total - again)
        IN  /\ total = 0 => shown = 0
            /\ total > 0 => (2 * error <= total /\ 0 - total <= 2 * error)
            /\ shown \in 0..1000

\* C18 witness: the rate of a log of three reviews, one of them rated Again,
\* has been computed: 66.7 percent
C18_Witness ==
    /\ lastResult.op = "retention"
    /\ Len(review_log) = 3
    /\ review_log[1].rating = "1"
    /\ review_log[2].rating = "3"
    /\ lastResult.value = 667

\* the least whole number that is at least n / d, brought into 1..5
ClampedCeil(n, d) ==
    LET ceil == CHOOSE l \in 0..n : l * d >= n /\ \A j \in 0..n : j * d >= n => l <= j
    IN  IF ceil < 1 THEN 1 ELSE IF ceil > 5 THEN 5 ELSE ceil

\* C19: with max_count the largest number of events on one day (1 for an
\* empty log), the heatmap gives a day without events level 0 and a day with
\* count events the level clamp(ceil(5 * count / max_count), 1, 5), which is
\* in 1..5; the day with max_count events has level 5, and for a fixed
\* max_count a larger count never has a smaller level.
C19_HeatmapIntensity ==
    /\ lastResult.op = "heatmap" =>
          LET count(d) ==
                  Cardinality({k \in DOMAIN review_log : review_log[k].review_date.date = d})
              days == {review_log[k].review_date.date : k \in DOMAIN review_log}
              max_count == IF days = {} THEN 1
                           ELSE CHOOSE m \in {count(d) : d \in days} :
                                   \A d \in days : count(d) <= m
              level == lastResult.value
          IN  \A d \in DOMAIN level :
                  /\ count(d) = 0 => level[d] = 0
                  /\ count(d) > 0 =>
                        /\ level[d] \in 1..5
                        /\ level[d] = ClampedCeil(5 * count(d), max_count)
                  /\ (count(d) > 0 /\ count(d) = max_count) => level[d] = 5
                  /\ \A e \in DOMAIN level : count(d) <= count(e) => level[d] <= level[e]
    /\ \A max_count \in 1..(StatDays * MaxPerDay) :
          \A c1 \in 0..max_count, c2 \in 0..max_count :
              c1 <= c2 => HeatmapIntensity(c1, max_count) <= HeatmapIntensity(c2, max_count)

\* C19 witness: the heatmap of a day with one review and a day with three
\* has been drawn: levels 2 and 5
C19_Witness ==
    /\ lastResult.op = "heatmap"
    /\ GetReviewHistoryByDay(review_log) = (1 :> 1) @@ (2 :> 3)
    /\ {1, 2} \subseteq DOMAIN lastResult.value
    /\ lastResult.value[1] = 2
    /\ lastResult.value[2] = 5

\* C20: the forecast gives, for each of the ForecastDays calendar days from
\* today on, the number of rows whose due instant lies in that day, from its
\* start to the start of the next day; so a card due earlier today than now
\* is in today's count.
C20_ForecastByCalendarDay ==
    \A day \in 0..(ForecastDays - 1) :
        LET day_start == (Today + day) * TicksPerDay - tz
        IN  GetCardsDueNextDays(ForecastDays)[day] =
                Cardinality({i \in DOMAIN schedulling :
                    /\ day_start <= FromIsoFormat(Val(schedulling[i].due))
                    /\ FromIsoFormat(Val(schedulling[i].due)) < day_start + TicksPerDay})

\* the names a tag filter compares: those of the selection, trimmed
TrimmedSelection(selected) == {Strip(s) : s \in selected}

\* C21: every tag name in the registry and in every card's stored tag list
\* has no leading or trailing whitespace, and the tag filter keeps a due card
\* exactly when one of its trimmed names equals a trimmed name of the
\* selection.
C21_TagNamesTrimmed ==
    /\ \A k \in DOMAIN tags : Strip(tags[k]) = tags[k]
    /\ \A i \in DOMAIN schedulling : \A t \in schedulling[i].tags : Strip(t) = t
    /\ \A selected \in Selections \ {{}} :
          FilterDueCardsByTags(GetAllCardsDue, selected) =
              SelectSeq(GetAllCardsDue,
                        LAMBDA c : GetCardTags(c) \cap TrimmedSelection(selected) # {})

\* C22: whenever the external editor runs the display is suspended, whenever
\* control is in the main menu the display is in curses mode, and control
\* always comes back from an editor call: the program is never ended by one
\* with the display left suspended.
C22_DisplaySuspendedAndResumed ==
    /\ ui.screen = "editor" => ui.display = "shell"
    /\ ui.screen = "menu" => ui.display = "curses"
    /\ ui.screen # "crashed"

\* C23: the preview of an existing card gives each rating 1..4 its offset d
\* cut down to whole units: minutes when d is under an hour, hours when under
\* a day, days when under a week, else weeks, never rounded up; the preview
\* of a card without a row gives "N/A" for all four ratings.
C23_PreviewFormat ==
    lastResult.op = "next_due" =>
        \A r \in 1..4 :
            LET d == lastResult.value[r].diff
                text == lastResult.value[r].text
                cut(unit, size) ==
                    /\ text.unit = unit
                    /\ text.n * size <= d
                    /\ d < (text.n + 1) * size
            IN  IF ~HasRow(lastResult.card) THEN text = NotAvailable
                ELSE /\ d < 3600 => cut("min", 60)
                     /\ (3600 <= d /\ d < 86400) => cut("h", 3600)
                     /\ (86400 <= d /\ d < 604800) => cut("d", 86400)
                     /\ 604800 <= d => cut("w", 604800)

\* C23 witness: a preview with an offset of 119 minutes has been shown as
\* "1h", next to one of 476 minutes shown as "7h"
C23_Witness ==
    /\ lastResult.op = "next_due"
    /\ HasRow(lastResult.card)
    /\ lastResult.value[1].diff = 119 * 60
    /\ lastResult.value[1].text = [n |-> 1, unit |-> "h"]
    /\ lastResult.value[4].text = [n |-> 7, unit |-> "h"]

\* C24: for every selection of registered tags, the whole registry included,
\* the due cards the main menu counts for the selection are as many as the
\* cards a review session started with that selection presents.
C24_MenuCountIsSessionLength ==
    \A selected_tags \in SUBSET Range(tags) :
        Len(GetCardsDueForTags(selected_tags)) =
            Len(Kept(WithContent(GetAllCardsDue), selected_tags))

\* control is inside ReviewMenu.run
InSession(u) == u.screen \in {"review", "rating", "edit", "editor"}

\* the step in which a rating key calls review_card
ReviewInvoked == pc = "idle" /\ ops' = ops + 1 /\ lastResult'.op = "review"

\* the step in which review_card returns to the review screen
ReviewReturns ==
    \/ ReviewInvoked /\ lastResult'.ret = "NotFound"
    \/ pc # "idle" /\ pc' = "idle" /\ lastResult'.ret = "ok"

\* the step in which review_card raises
ReviewRaises == pc # "idle" /\ pc' = "idle" /\ lastResult'.ret = "raised"

\* the session has gone from the current card to the next: the index is one
\* higher and the list is the same, or the list is finished and the session
\* has ended
MovedOn ==
    IF ui.current_card_idx + 1 < Len(ui.due_cards)
    THEN /\ ui'.screen = "review"
         /\ ui'.current_card_idx = ui.current_card_idx + 1
         /\ ui'.due_cards = ui.due_cards
    ELSE ui'.screen = "menu"

\* C25 as stated: review_card is called for a card only while the card is
\* current and its answer is shown, and at most once for a card in a
\* session; every rating key moves the session index on by exactly one, the
\* index never decreases, and no step adds two review events.
C25_RatedAtMostOnce ==
    [][/\ ReviewInvoked =>
            /\ ui.screen = "review"
            /\ ui.show_answer
            /\ lastResult'.card = CurrentCard.id
            /\ lastResult'.card \notin Range(ui.reviewed)
       /\ (ReviewReturns \/ ReviewRaises) => MovedOn
       /\ (InSession(ui) /\ InSession(ui')) => ui'.current_card_idx >= ui.current_card_idx
       /\ Len(review_log') <= Len(review_log) + 1]_vars

\* C25, amended: review_card is called for a card only while the card is
\* current and its answer is shown, and never for a card whose review was
\* committed earlier in the session; a rating key whose review_card returns
\* moves the session index on by exactly one, one whose review_card raises
\* leaves the store, the index and the answer as they were, so that the card
\* can be rated again by another key; the index never decreases, and no step
\* adds two review events.
C25_NoBlindRetry ==
    [][/\ ReviewInvoked =>
            /\ ui.screen = "review"
            /\ ui.show_answer
            /\ lastResult'.card = CurrentCard.id
            /\ lastResult'.card \notin ui.rated
       /\ ReviewReturns => MovedOn
       /\ ReviewRaises =>
            /\ ui'.screen = "review"
            /\ ui'.current_card_idx = ui.current_card_idx
            /\ ui'.due_cards = ui.due_cards
            /\ ui'.show_answer
            /\ schedulling' = schedulling
            /\ review_log' = review_log
       /\ (InSession(ui) /\ InSession(ui')) => ui'.current_card_idx >= ui.current_card_idx
       /\ Len(review_log') <= Len(review_log) + 1]_vars

\* C25 witness: the review of the first card has raised, the card was rated
\* again, the review was committed and the second card is current
C25_Witness ==
    /\ ui.screen = "review"
    /\ ui.reviewed = <<1, 1>>
    /\ ui.rated = {1}
    /\ ui.current_card_idx = 1
    /\ Len(review_log) = 1
    /\ lastResult = Result("review", 1, "ok")

\* the card on the review screen, None outside a session
CurrentId(u) ==
    IF InSession(u) /\ u.current_card_idx < Len(u.due_cards)
    THEN Some(u.due_cards[u.current_card_idx + 1].id)
    ELSE None

\* C26: whenever a different card becomes the current card of a review
\* session (after a rating, after a delete through the edit menu, after the
\* card was dropped for its edited tags), the session is in the question
\* state: show_answer is false.
C26_NewCardStartsAtQuestion ==
    [][(CurrentId(ui') # None /\ CurrentId(ui') # CurrentId(ui)) => ~ui'.show_answer]_vars

\* the step in which the edit menu of a session returns after the card was
\* deleted or its new tags no longer meet the selected tags
CardLeavesSelection ==
    /\ ui.screen = "edit"
    /\ pc' = "idle"
    /\ \E c \in CardIds :
         /\ c = CurrentCard.id
         /\ \/ ~HasRow(c)'
            \/ /\ ui.selected_tags # {}
               /\ lastResult'.op = "edit_tags"
               /\ GetCardTags(c)' \cap ui.selected_tags = {}

\* C27: in a review session a card that is deleted through the edit menu, or
\* whose edited tags no longer meet the selected tags, is taken out of the
\* session list and is never passed to review_card afterwards; the removal
\* keeps the index within 0..len(list) and makes the card that followed
\* current, and the session ends when the list becomes empty.
C27_RemovedCardLeavesSession ==
    [][/\ CardLeavesSelection =>
            IF ui.current_card_idx + 1 >= Len(ui.due_cards)
            THEN ui'.screen = "menu"
            ELSE /\ ui'.screen = "review"
                 /\ ui'.due_cards = Pop(ui.due_cards, ui.current_card_idx)
                 /\ ui'.current_card_idx = ui.current_card_idx
       /\ InSession(ui') => ui'.current_card_idx \in 0..Len(ui'.due_cards)
       /\ ReviewInvoked =>
            /\ HasRow(lastResult'.card)
            /\ \/ ui.selected_tags = {}
               \/ GetCardTags(lastResult'.card) \cap ui.selected_tags # {}]_vars

\* C28: after any sequence of create_card, duplicate_card and delete_card in
\* which single blob writes or removals may fail, every schedule row has
\* both of its content blobs (blobs without a row are allowed).
C28_NoRowWithoutContent ==
    \A i \in DOMAIN schedulling :
        /\ <<schedulling[i].command, "front">> \in DOMAIN files
        /\ <<schedulling[i].command, "back">> \in DOMAIN files

\* no tag name occurs twice in the registry
NoDuplicateTag == \A i, j \in DOMAIN tags : tags[i] = tags[j] => i = j

\* C29: the tag registry is a set: after any sequence of new-tag actions of
\* the tag management menu, adding a registered name included, no name
\* occurs twice in the registry; and creating, retagging and deleting cards
\* leave the registry as it is.
C29_RegistryIsASet ==
    /\ []NoDuplicateTag
    /\ [][ops' = ops + 1 => tags' = tags]_vars

\* C30: a direct parameter edit (edit_card_parameters) appends no review
\* event and leaves the reps, lapses, last_review and tags of the card
\* unchanged; the difficulty it persists is within 0..10 and the stability
\* is >= 0 whatever was typed, and a due date input that does not parse
\* keeps the card's previous due.
C30_ParameterEditFrame ==
    [][\A c \in CardIds, input \in ParameterInputs :
          EditCardParameters(c, input) =>
             /\ review_log' = review_log
             /\ Len(schedulling') = Len(schedulling)
             /\ \A i \in DOMAIN schedulling :
                   /\ schedulling'[i].command = schedulling[i].command
                   /\ schedulling'[i].reps = schedulling[i].reps
                   /\ schedulling'[i].lapses = schedulling[i].lapses
                   /\ schedulling'[i].last_review = schedulling[i].last_review
                   /\ schedulling'[i].tags = schedulling[i].tags
                   /\ (schedulling[i].command = c /\ lastResult'.ret = "ok") =>
                         /\ Val(schedulling'[i].difficulty) \in 0..10
                         /\ Val(schedulling'[i].stability) >= 0
                         /\ Len(input.due) = 2 => schedulling'[i].due = schedulling[i].due]_vars

\* C30 witness: the editor has written a card whose due date is not on a
\* full minute, after 11, -1 and a text that is no date were typed: the
\* difficulty is 10, the stability 0 and the due date is the one of the review
C30_Witness ==
    /\ lastResult = Result("params", 1, "ok")
    /\ HasRow(1)
    /\ schedulling[RowIndex(1)].difficulty = Some(10)
    /\ schedulling[RowIndex(1)].stability = Some(0)
    /\ FromIsoFormat(Val(schedulling[RowIndex(1)].due)) % TicksPerMinute # 0
    /\ Len(review_log) = 1
====
